---- MODULE Spec2Model ----
(***************************************************************************)
(* Client-side streaming sessions of the Artifactor frontend.              *)
(*                                                                         *)
(*   AnalysisProgress  (components/analysis-progress, src/unnamed/part_001)*)
(*       the multi-stage progress tracker: stage upsert, overall percent,  *)
(*       ETA, elapsed-time ticker, pause side channel.                     *)
(*   useChat           (hooks/use-chat, listed in src/CONTRIBUTING.md)     *)
(*       the conversational session: transcript, placeholder turn.         *)
(*                                                                         *)
(* Both are built on useSSEStream of the package @agenisea/sse-kit, whose  *)
(* code is not part of the repository sources; its behaviour is modelled   *)
(* from section 4.1 / 5 of the specification (the Sse* definitions).       *)
(*                                                                         *)
(* Optional wire fields are modelled with one "undefined" value per type:  *)
(* NoStr for strings, NoNum for numbers.  Durations are whole              *)
(* milliseconds.                                                           *)
(***************************************************************************)
EXTENDS Integers, Sequences, FiniteSets, TLC

\* ------------------------------------------------------------------------
\* Bounds of the model
\* ------------------------------------------------------------------------
MaxRuns == 2
MaxPausedEvents == 1
MaxTicks == 1
MaxSends == 2
MaxStale == 1
MaxMalformed == 1
MaxBurst == 3

\* ------------------------------------------------------------------------
\* Values
\* ------------------------------------------------------------------------
NoStr == "<undefined>"
NoNum == -1

\* interval of the elapsed-time ticker, setInterval(..., 500)
TickMs == 500

\* JavaScript truthiness of an optional string / number
TruthyStr(s) == s # NoStr /\ s # ""
TruthyNum(n) == n # NoNum /\ n # 0

\* AnalysisEventData with every field undefined
NoData ==
  [name |-> NoStr, label |-> NoStr, status |-> NoStr, message |-> NoStr,
   duration_ms |-> NoNum, completed |-> NoNum, total |-> NoNum,
   percent |-> NoNum, project_id |-> NoStr, sections |-> NoNum,
   stages_ok |-> NoNum, stages_failed |-> NoNum, error |-> NoStr]

\* summary === null, progress === null
NoSummary ==
  [project_id |-> NoStr, sections |-> NoNum, stages_ok |-> NoNum,
   stages_failed |-> NoNum, duration_ms |-> NoNum]
NoProgress == [completed |-> NoNum, total |-> NoNum, percent |-> NoNum]

StageNames == {"A", "B", "C"}

\* A payload of a "stage" event: a name, a status and a duration.
StageData(n, st, d) ==
  [NoData EXCEPT !.name = n, !.status = st, !.duration_ms = d]

WithSnapshot(data, c, t, p) ==
  [data EXCEPT !.completed = c, !.total = t, !.percent = p]

\* status / duration pairs a stage event carries
StagePayloads ==
  { <<NoStr, NoNum>>, <<"pending", NoNum>>, <<"running", NoNum>>,
    <<"done", NoNum>>, <<"done", 1500>>, <<"error", NoNum>> }

PlainStageEvents ==
  { [event |-> "stage", data |-> StageData(n, sd[1], sd[2])] :
      n \in StageNames, sd \in StagePayloads }

\* stage events that carry a label and a message, a full snapshot, or only
\* part of a snapshot
RichStageEvents ==
  { [event |-> "stage",
     data |-> [StageData("A", "running", NoNum)
                 EXCEPT !.label = "Parse", !.message = "parsing"]],
    [event |-> "stage",
     data |-> WithSnapshot(StageData("A", "running", NoNum), 1, 4, 25)],
    [event |-> "stage",
     data |-> WithSnapshot(StageData("B", "done", 1500), 2, 4, 50)],
    [event |-> "stage",
     data |-> WithSnapshot(StageData("B", "running", NoNum), 0, 4, 0)],
    [event |-> "stage",
     data |-> WithSnapshot(StageData("A", "done", 1500), 1, 4, NoNum)] }

\* updates without a usable name, and a named update of another event type
OtherUpdateEvents ==
  { [event |-> "stage", data |-> [NoData EXCEPT !.status = "done"]],
    [event |-> "stage",
     data |-> WithSnapshot([NoData EXCEPT !.name = ""], 3, 4, 75)],
    [event |-> "idle", data |-> StageData("C", "pending", NoNum)] }

PausedEvent == [event |-> "paused", data |-> [NoData EXCEPT !.message = "paused"]]

CompleteEvents ==
  { [event |-> "complete",
     data |-> [NoData EXCEPT !.project_id = "p1", !.sections = 3,
                             !.stages_ok = 2, !.duration_ms = 4000]],
    [event |-> "complete",
     data |-> [NoData EXCEPT !.project_id = "p1", !.sections = 0]],
    \* malformed: no project_id / no sections
    [event |-> "complete", data |-> [NoData EXCEPT !.sections = 3]],
    [event |-> "complete", data |-> [NoData EXCEPT !.project_id = "p1"]] }

ErrorEvents ==
  { [event |-> "error", data |-> [NoData EXCEPT !.error = "boom"]] }

AnalysisEvents ==
  PlainStageEvents \cup RichStageEvents \cup OtherUpdateEvents
    \cup {PausedEvent} \cup CompleteEvents \cup ErrorEvents


\* ------------------------------------------------------------------------
\* Pure functions of AnalysisProgress
\* ------------------------------------------------------------------------

\* Math.round(num / den) for num >= 0, den > 0: floor(num/den + 1/2)
RoundDiv(num, den) == (2 * num + den) \div (2 * den)

\* extractResult that does not ask for a project_id
AnalysisExtractResultAnyProject(data) ==
  IF data.sections # NoNum
  THEN [project_id |-> data.project_id,
        sections |-> data.sections,
        stages_ok |-> IF data.stages_ok = NoNum THEN 0 ELSE data.stages_ok,
        stages_failed |->
          IF data.stages_failed = NoNum THEN 0 ELSE data.stages_failed,
        duration_ms |->
          IF data.duration_ms = NoNum THEN 0 ELSE data.duration_ms]
  ELSE NoSummary

\* extractResult of the analysis stream
AnalysisExtractResult(data) ==
  IF TruthyStr(data.project_id) /\ data.sections # NoNum
  THEN [project_id |-> data.project_id,
        sections |-> data.sections,
        stages_ok |-> IF data.stages_ok = NoNum THEN 0 ELSE data.stages_ok,
        stages_failed |->
          IF data.stages_failed = NoNum THEN 0 ELSE data.stages_failed,
        duration_ms |->
          IF data.duration_ms = NoNum THEN 0 ELSE data.duration_ms]
  ELSE NoSummary

\* the Stage record onUpdate builds from a payload with a name
MkStage(data) ==
  [name |-> data.name,
   label |-> IF data.label = NoStr THEN data.name ELSE data.label,
   status |-> IF TruthyStr(data.status) THEN data.status ELSE "running",
   message |-> IF TruthyStr(data.message) THEN data.message ELSE "",
   duration_ms |-> IF TruthyNum(data.duration_ms) THEN data.duration_ms ELSE 0]

\* prev.findIndex((s) => s.name === name), 0 when there is none
FindIndex(prev, name) ==
  IF \E i \in 1..Len(prev) : prev[i].name = name
  THEN CHOOSE i \in 1..Len(prev) :
         /\ prev[i].name = name
         /\ \A j \in 1..(i - 1) : prev[j].name # name
  ELSE 0

\* UpsertStage that starts a new list for a name it has not seen
UpsertStageRestarts(prev, stage) ==
  IF FindIndex(prev, stage.name) > 0
  THEN [prev EXCEPT ![FindIndex(prev, stage.name)] = stage]
  ELSE <<stage>>

\* UpsertStage without the lookup by name: every stage event appends
UpsertStageAppends(prev, stage) == Append(prev, stage)

\* variant: an updated stage is taken out of its place and put last
UpsertStageMovesToEnd(prev, stage) ==
  Append(SelectSeq(prev, LAMBDA s : s.name # stage.name), stage)

\* the updater passed to setStages
UpsertStage(prev, stage) ==
  LET idx == FindIndex(prev, stage.name)
  IN  IF idx > 0 THEN [prev EXCEPT ![idx] = stage] ELSE Append(prev, stage)

\* variant: the first snapshot of a run is kept, later ones are ignored
NextProgressKeepsFirst(prev, data) ==
  IF prev = NoProgress
       /\ data.completed # NoNum /\ data.total # NoNum /\ data.percent # NoNum
  THEN [completed |-> data.completed, total |-> data.total,
        percent |-> data.percent]
  ELSE prev

\* the snapshot stored by setProgress, or the previous one
NextProgress(prev, data) ==
  IF data.completed # NoNum /\ data.total # NoNum /\ data.percent # NoNum
  THEN [completed |-> data.completed, total |-> data.total,
        percent |-> data.percent]
  ELSE prev

CountStatus(stgs, statuses) ==
  Cardinality({i \in 1..Len(stgs) : stgs[i].status \in statuses})

RECURSIVE SumDoneDurations(_)
SumDoneDurations(stgs) ==
  IF stgs = <<>> THEN 0
  ELSE (IF Head(stgs).status = "done" THEN Head(stgs).duration_ms ELSE 0)
         + SumDoneDurations(Tail(stgs))

\* OverallPercent counting the stages that are not done
OverallPercentOfOpen(prog, stgs) ==
  IF prog # NoProgress
  THEN prog.percent
  ELSE IF Len(stgs) > 0
       THEN RoundDiv(100 * (Len(stgs) - CountStatus(stgs, {"done"})),
                     Len(stgs))
       ELSE 0

\* OverallPercent truncating instead of rounding
OverallPercentFloor(prog, stgs) ==
  IF prog # NoProgress
  THEN prog.percent
  ELSE IF Len(stgs) > 0
       THEN (100 * CountStatus(stgs, {"done"})) \div Len(stgs)
       ELSE 0

\* progress?.percent ?? (stages.length > 0 ? Math.round(done/len*100) : 0)
OverallPercent(prog, stgs) ==
  IF prog # NoProgress
  THEN prog.percent
  ELSE IF Len(stgs) > 0
       THEN RoundDiv(100 * CountStatus(stgs, {"done"}), Len(stgs))
       ELSE 0

\* EstimatedRemainingMs averaging from the first Done stage on
EstimatedRemainingMsOneSample(stgs) ==
  LET doneCount == CountStatus(stgs, {"done"})
      doneSum == SumDoneDurations(stgs)
      avgPositive == doneCount >= 1 /\ doneSum > 0
      pendingCount == CountStatus(stgs, {"running", "pending"})
  IN  IF avgPositive /\ pendingCount > 0
      THEN RoundDiv(doneSum * pendingCount, doneCount)
      ELSE 0

\* avgMs * pendingCount, rounded; 0 stands for "not shown"
EstimatedRemainingMs(stgs) ==
  LET doneCount == CountStatus(stgs, {"done"})
      doneSum == SumDoneDurations(stgs)
      avgPositive == doneCount >= 2 /\ doneSum > 0
      pendingCount == CountStatus(stgs, {"running", "pending"})
  IN  IF avgPositive /\ pendingCount > 0
      THEN RoundDiv(doneSum * pendingCount, doneCount)
      ELSE 0

\* ------------------------------------------------------------------------
\* StreamSession (useSSEStream): state { status, error, result }
\* ------------------------------------------------------------------------
\* state.result === null
NoResult == [defined |-> FALSE]

SseIdle == [status |-> "idle", error |-> NoStr, result |-> NoResult]

\* message of the Error a session ends in when the transport closes
\* without a complete or error event
ClosedMessage == "Stream closed"

\* start(): rejected while streaming, otherwise the session is streaming
SseCanStart(st) == st.status # "streaming"
SseStart(st) ==
  IF SseCanStart(st) THEN [st EXCEPT !.status = "streaming"] ELSE st

\* SseReset that returns to idle with the last result and error kept
SseResetKeepsResult(st) ==
  IF st.status = "streaming" THEN st ELSE [st EXCEPT !.status = "idle"]

\* reset(): clears result and error in idle and terminal states
SseReset(st) == IF st.status = "streaming" THEN st ELSE SseIdle

\* cancel(): only while streaming, moves to idle without a result
SseCancel(st) ==
  IF st.status = "streaming" THEN [st EXCEPT !.status = "idle"] ELSE st

SseComplete(st, res) == [status |-> "complete", error |-> NoStr, result |-> res]
SseError(st, msg) == [st EXCEPT !.status = "error", !.error = msg]

\* SseApplies that takes the events of every connection while streaming
SseAppliesAnyGeneration(st, gen, g) == st.status = "streaming"

\* SseApplies that does not look at the status of the session
SseAppliesAnyStatus(st, gen, g) == g = gen

\* an event of connection g is applied only by the generation that opened g
\* and only while that generation is streaming
SseApplies(st, gen, g) == st.status = "streaming" /\ g = gen


\* ------------------------------------------------------------------------
\* State of one AnalysisProgress component
\* ------------------------------------------------------------------------
VARIABLES
  stages,         \* useState<Stage[]>
  summary,        \* useState<CompleteSummary | null>
  progress,       \* useState<ProgressInfo | null>
  elapsedMs,      \* useState(0)
  isPausing,      \* useState(false)
  timerRef,       \* id of the interval in timerRef.current, 0 = undefined
  startedRef,     \* startedRef.current
  analysisState,  \* state of the analysis StreamSession
  analysisGen,    \* generation of the analysis StreamSession (accepted starts)
  analysisConns,  \* generations whose transport connection is still open
  intervals,      \* ids of the intervals that are set and not cleared
  pauseFetches,   \* pause requests awaiting their response
  mounted,        \* the component is mounted
  runs,           \* number of startAnalysis calls so far
  \* observations of the current run
  lastEv,         \* per stage name, the payload of the last applied event
  onCompleteCalls,\* invocations of props.onComplete
  onErrorCalls,   \* invocations of props.onError
  onPausedCalls,  \* invocations of props.onPaused
  pausedEvents,   \* "paused" stream events applied
  pauseAccepts,   \* pause requests accepted
  pauseOutcome    \* outcome of the last pause request that settled

trackerVars ==
  <<stages, summary, progress, elapsedMs, isPausing, timerRef, startedRef,
    analysisState, analysisGen, analysisConns, intervals, pauseFetches,
    mounted, runs, lastEv, onCompleteCalls, onErrorCalls, onPausedCalls,
    pausedEvents, pauseAccepts, pauseOutcome>>

\* State of one useChat hook
VARIABLES
  messages,          \* useState<ChatMessage[]>
  conversationId,    \* useState<string | null>, NoStr = null
  assistantIdxRef,   \* assistantIdxRef.current, 1-based, 0 = none (-1)
  conversationIdRef, \* conversationIdRef.current, assigned at each render
  renderedStreaming, \* state.isStreaming as captured by the last render
  chatState,         \* state of the chat StreamSession
  chatGen,           \* generation of the chat StreamSession
  chatConns,         \* generations whose transport connection is still open
  \* observations
  sends,             \* sendMessage calls that passed the guard
  sentIds,           \* conversation ids sent with the turns, in order
  staleDelivered,    \* events delivered on a connection no longer live
  lastCompletionId,  \* conversation_id of the last applied complete event
                     \* that carried one
  malformedCompletes,\* complete events without a usable result applied to
                     \* the current stream
  lastStatus         \* status text of the last thinking / tool_call event
                     \* applied to the turn in flight, NoStr if none

chatVars ==
  <<messages, conversationId, assistantIdxRef, conversationIdRef,
    renderedStreaming, chatState, chatGen, chatConns, sends, sentIds,
    staleDelivered, lastCompletionId, malformedCompletes, lastStatus>>

\* The updates of one burst of events, between two renders of the tracker
VARIABLES
  pendingUpdates,    \* payloads whose setStages / setProgress calls React
                     \* has queued and not yet rendered
  delivered          \* the events handed to onUpdate so far, in order

batchVars == <<pendingUpdates, delivered>>

TrackerInit ==
  /\ stages = <<>>
  /\ summary = NoSummary
  /\ progress = NoProgress
  /\ elapsedMs = 0
  /\ isPausing = FALSE
  /\ timerRef = 0
  /\ startedRef = FALSE
  /\ analysisState = SseIdle
  /\ analysisGen = 0
  /\ analysisConns = {}
  /\ intervals = {}
  /\ pauseFetches = 0
  /\ mounted = TRUE
  /\ runs = 0
  /\ lastEv = [n \in StageNames |-> NoData]
  /\ onCompleteCalls = 0
  /\ onErrorCalls = 0
  /\ onPausedCalls = 0
  /\ pausedEvents = 0
  /\ pauseAccepts = 0
  /\ pauseOutcome = NoStr

\* if (timerRef.current) clearInterval(timerRef.current)
ClearTimer(ivs, ref) == ivs \ {ref}

\* StartAnalysis that leaves the Stage set of the earlier run in place
StartAnalysisKeepsStages ==
  /\ stages' = stages
  /\ summary' = NoSummary
  /\ progress' = NoProgress
  /\ elapsedMs' = 0
  /\ timerRef' = runs + 1
  /\ intervals' = intervals \cup {runs + 1}
  /\ runs' = runs + 1
  /\ analysisState' = SseStart(SseReset(analysisState))
  /\ IF SseCanStart(SseReset(analysisState))
     THEN /\ analysisGen' = analysisGen + 1
          /\ analysisConns' = analysisConns \cup {analysisGen + 1}
     ELSE UNCHANGED <<analysisGen, analysisConns>>
  /\ lastEv' = [n \in StageNames |-> NoData]
  /\ onCompleteCalls' = 0
  /\ onErrorCalls' = 0
  /\ onPausedCalls' = 0
  /\ pausedEvents' = 0
  /\ pauseAccepts' = 0

\* startAnalysis(): clear the run state, start the ticker, reset() and
\* start() the stream
StartAnalysis ==
  /\ stages' = <<>>
  /\ summary' = NoSummary
  /\ progress' = NoProgress
  /\ elapsedMs' = 0
  /\ timerRef' = runs + 1
  /\ intervals' = intervals \cup {runs + 1}
  /\ runs' = runs + 1
  /\ analysisState' = SseStart(SseReset(analysisState))
  /\ IF SseCanStart(SseReset(analysisState))
     THEN /\ analysisGen' = analysisGen + 1
          /\ analysisConns' = analysisConns \cup {analysisGen + 1}
     ELSE UNCHANGED <<analysisGen, analysisConns>>
  /\ lastEv' = [n \in StageNames |-> NoData]
  /\ onCompleteCalls' = 0
  /\ onErrorCalls' = 0
  /\ onPausedCalls' = 0
  /\ pausedEvents' = 0
  /\ pauseAccepts' = 0

\* the mount effect: runs startAnalysis once
Mount ==
  /\ mounted
  /\ ~startedRef
  /\ startedRef' = TRUE
  /\ StartAnalysis
  /\ UNCHANGED <<isPausing, pauseFetches, mounted>>
  /\ UNCHANGED pauseOutcome
  /\ UNCHANGED chatVars
  /\ UNCHANGED batchVars

\* variant: the Retry control is offered whatever the state of the stream
RetryAnyTime ==
  /\ mounted
  /\ runs < MaxRuns
  /\ StartAnalysis
  /\ UNCHANGED <<isPausing, startedRef, pauseFetches, mounted>>
  /\ UNCHANGED pauseOutcome
  /\ UNCHANGED chatVars
  /\ UNCHANGED batchVars

\* the Retry button, rendered while state.error is set
Retry ==
  /\ mounted
  /\ TruthyStr(analysisState.error)
  /\ runs < MaxRuns
  /\ StartAnalysis
  /\ UNCHANGED <<isPausing, startedRef, pauseFetches, mounted>>
  /\ UNCHANGED pauseOutcome
  /\ UNCHANGED chatVars
  /\ UNCHANGED batchVars

\* onUpdate whose paused branch leaves the interval set
AnalysisOnUpdatePausedKeepsTimer(event, data) ==
  IF event = "paused"
  THEN /\ intervals' = intervals
       /\ onPausedCalls' = onPausedCalls + 1
       /\ pausedEvents' = pausedEvents + 1
       /\ UNCHANGED <<stages, progress, lastEv>>
  ELSE IF TruthyStr(data.name)
       THEN /\ stages' = UpsertStage(stages, MkStage(data))
            /\ progress' = NextProgress(progress, data)
            /\ lastEv' = [lastEv EXCEPT ![data.name] = data]
            /\ UNCHANGED <<intervals, onPausedCalls, pausedEvents>>
       ELSE UNCHANGED <<stages, progress, lastEv, intervals, onPausedCalls,
                        pausedEvents>>

\* onUpdate(event, data)
AnalysisOnUpdate(event, data) ==
  IF event = "paused"
  THEN /\ intervals' = ClearTimer(intervals, timerRef)
       /\ onPausedCalls' = onPausedCalls + 1
       /\ pausedEvents' = pausedEvents + 1
       /\ UNCHANGED <<stages, progress, lastEv>>
  ELSE IF TruthyStr(data.name)
       THEN /\ stages' = UpsertStage(stages, MkStage(data))
            /\ progress' = NextProgress(progress, data)
            /\ lastEv' = [lastEv EXCEPT ![data.name] = data]
            /\ UNCHANGED <<intervals, onPausedCalls, pausedEvents>>
       ELSE UNCHANGED <<stages, progress, lastEv, intervals, onPausedCalls,
                        pausedEvents>>

\* AnalysisOnComplete that leaves the ticker running
AnalysisOnCompleteKeepsTimer(result) ==
  /\ summary' = result
  /\ intervals' = intervals
  /\ onCompleteCalls' = onCompleteCalls + 1

\* onComplete(result)
AnalysisOnComplete(result) ==
  /\ summary' = result
  /\ intervals' = ClearTimer(intervals, timerRef)
  /\ onCompleteCalls' = onCompleteCalls + 1

\* AnalysisOnError that leaves the ticker running
AnalysisOnErrorKeepsTimer ==
  /\ intervals' = intervals
  /\ onErrorCalls' = onErrorCalls + 1

\* onError()
AnalysisOnError ==
  /\ intervals' = ClearTimer(intervals, timerRef)
  /\ onErrorCalls' = onErrorCalls + 1

\* The transport delivers event e on connection g.  The session applies it
\* when g is its live connection: a complete event with a usable result
\* completes the session, an error event fails it, everything else is an
\* update.
AnalysisDeliver(g, e) ==
  /\ g \in analysisConns
  /\ e = PausedEvent => pausedEvents < MaxPausedEvents
  /\ IF mounted /\ SseApplies(analysisState, analysisGen, g)
     THEN IF e.event = "complete" /\ AnalysisExtractResult(e.data) # NoSummary
          THEN /\ analysisState' =
                    SseComplete(analysisState, AnalysisExtractResult(e.data))
               /\ AnalysisOnComplete(AnalysisExtractResult(e.data))
               /\ UNCHANGED <<stages, progress, lastEv, onErrorCalls,
                              onPausedCalls, pausedEvents>>
          ELSE IF e.event = "error"
               THEN /\ analysisState' = SseError(analysisState, e.data.error)
                    /\ AnalysisOnError
                    /\ UNCHANGED <<stages, progress, lastEv, summary,
                                   onCompleteCalls, onPausedCalls,
                                   pausedEvents>>
               ELSE /\ AnalysisOnUpdate(e.event, e.data)
                    /\ UNCHANGED <<analysisState, summary, onCompleteCalls,
                                   onErrorCalls>>
     ELSE UNCHANGED <<stages, progress, lastEv, summary, analysisState,
                      intervals, onCompleteCalls, onErrorCalls, onPausedCalls,
                      pausedEvents>>
  /\ UNCHANGED <<elapsedMs, isPausing, timerRef, startedRef, analysisGen,
                 analysisConns, pauseFetches, mounted, runs, pauseAccepts>>
  /\ UNCHANGED pauseOutcome
  /\ UNCHANGED chatVars
  /\ UNCHANGED batchVars

\* AnalysisClose that ends a streaming session in idle, without an error
AnalysisCloseSilent(g) ==
  /\ g \in analysisConns
  /\ analysisConns' = analysisConns \ {g}
  /\ IF mounted /\ SseApplies(analysisState, analysisGen, g)
     THEN /\ analysisState' = SseIdle
          /\ UNCHANGED <<intervals, onErrorCalls>>
     ELSE UNCHANGED <<analysisState, intervals, onErrorCalls>>
  /\ UNCHANGED <<stages, summary, progress, elapsedMs, isPausing, timerRef,
                 startedRef, analysisGen, pauseFetches, mounted, runs, lastEv,
                 onCompleteCalls, onPausedCalls, pausedEvents, pauseAccepts>>
  /\ UNCHANGED pauseOutcome
  /\ UNCHANGED chatVars
  /\ UNCHANGED batchVars

\* The transport connection g closes.  A session still streaming on it ends
\* in Error with a generic message.
AnalysisClose(g) ==
  /\ g \in analysisConns
  /\ analysisConns' = analysisConns \ {g}
  /\ IF mounted /\ SseApplies(analysisState, analysisGen, g)
     THEN /\ analysisState' = SseError(analysisState, ClosedMessage)
          /\ AnalysisOnError
     ELSE UNCHANGED <<analysisState, intervals, onErrorCalls>>
  /\ UNCHANGED <<stages, summary, progress, elapsedMs, isPausing, timerRef,
                 startedRef, analysisGen, pauseFetches, mounted, runs, lastEv,
                 onCompleteCalls, onPausedCalls, pausedEvents, pauseAccepts>>
  /\ UNCHANGED pauseOutcome
  /\ UNCHANGED chatVars
  /\ UNCHANGED batchVars

\* a tick of interval id: setElapsedMs(Date.now() - startTimeRef.current)
Tick(id) ==
  /\ mounted
  /\ id \in intervals
  /\ \E k \in 1..MaxTicks :
       /\ k * TickMs >= elapsedMs
       /\ elapsedMs' = k * TickMs
  /\ UNCHANGED <<stages, summary, progress, isPausing, timerRef, startedRef,
                 analysisState, analysisGen, analysisConns, intervals,
                 pauseFetches, mounted, runs, lastEv, onCompleteCalls,
                 onErrorCalls, onPausedCalls, pausedEvents, pauseAccepts>>
  /\ UNCHANGED pauseOutcome
  /\ UNCHANGED chatVars
  /\ UNCHANGED batchVars

\* handlePause without the isPausing guard
PauseClickUnguarded ==
  /\ mounted
  /\ isPausing' = TRUE
  /\ pauseFetches' = pauseFetches + 1
  /\ UNCHANGED <<stages, summary, progress, elapsedMs, timerRef, startedRef,
                 analysisState, analysisGen, analysisConns, intervals,
                 mounted, runs, lastEv, onCompleteCalls, onErrorCalls,
                 onPausedCalls, pausedEvents, pauseAccepts>>
  /\ UNCHANGED pauseOutcome
  /\ UNCHANGED chatVars
  /\ UNCHANGED batchVars

\* handlePause up to the fetch: guarded by isPausing
PauseClick ==
  /\ mounted
  /\ ~isPausing
  /\ isPausing' = TRUE
  /\ pauseFetches' = pauseFetches + 1
  /\ UNCHANGED <<stages, summary, progress, elapsedMs, timerRef, startedRef,
                 analysisState, analysisGen, analysisConns, intervals,
                 mounted, runs, lastEv, onCompleteCalls, onErrorCalls,
                 onPausedCalls, pausedEvents, pauseAccepts>>
  /\ UNCHANGED pauseOutcome
  /\ UNCHANGED chatVars
  /\ UNCHANGED batchVars

PauseOutcomes == {"accepted", "refused", "network-error"}

\* handlePause that leaves isPausing set when the request fails
PauseResponseKeepsFlag(outcome) ==
  /\ pauseFetches > 0
  /\ pauseFetches' = pauseFetches - 1
  /\ IF outcome = "accepted"
     THEN /\ intervals' = ClearTimer(intervals, timerRef)
          /\ onPausedCalls' = onPausedCalls + 1
          /\ pauseAccepts' = pauseAccepts + 1
          /\ UNCHANGED isPausing
     ELSE /\ UNCHANGED isPausing
          /\ UNCHANGED <<intervals, onPausedCalls, pauseAccepts>>
  /\ UNCHANGED <<stages, summary, progress, elapsedMs, timerRef, startedRef,
                 analysisState, analysisGen, analysisConns, mounted, runs,
                 lastEv, onCompleteCalls, onErrorCalls, pausedEvents>>
  /\ pauseOutcome' = outcome
  /\ UNCHANGED chatVars
  /\ UNCHANGED batchVars

\* handlePause that reports a failed request as an error of the stream
PauseResponseFailsSession(outcome) ==
  /\ pauseFetches > 0
  /\ pauseFetches' = pauseFetches - 1
  /\ IF outcome = "accepted"
     THEN /\ intervals' = ClearTimer(intervals, timerRef)
          /\ onPausedCalls' = onPausedCalls + 1
          /\ pauseAccepts' = pauseAccepts + 1
          /\ UNCHANGED isPausing
     ELSE /\ isPausing' = (IF mounted THEN FALSE ELSE isPausing)
          /\ UNCHANGED <<intervals, onPausedCalls, pauseAccepts>>
  /\ analysisState' =
       IF outcome = "accepted" \/ analysisState.status # "streaming"
       THEN analysisState
       ELSE SseError(analysisState, "Pause failed")
  /\ UNCHANGED <<stages, summary, progress, elapsedMs, timerRef, startedRef,
                 analysisGen, analysisConns, mounted, runs,
                 lastEv, onCompleteCalls, onErrorCalls, pausedEvents>>
  /\ pauseOutcome' = outcome
  /\ UNCHANGED chatVars
  /\ UNCHANGED batchVars

\* variant: the accepted branch does not return and falls through to
\* setIsPausing(false)
PauseResponseFallsThrough(outcome) ==
  /\ pauseFetches > 0
  /\ pauseFetches' = pauseFetches - 1
  /\ IF outcome = "accepted"
     THEN /\ intervals' = ClearTimer(intervals, timerRef)
          /\ onPausedCalls' = onPausedCalls + 1
          /\ pauseAccepts' = pauseAccepts + 1
          /\ isPausing' = (IF mounted THEN FALSE ELSE isPausing)
     ELSE /\ isPausing' = (IF mounted THEN FALSE ELSE isPausing)
          /\ UNCHANGED <<intervals, onPausedCalls, pauseAccepts>>
  /\ UNCHANGED <<stages, summary, progress, elapsedMs, timerRef, startedRef,
                 analysisState, analysisGen, analysisConns, mounted, runs,
                 lastEv, onCompleteCalls, onErrorCalls, pausedEvents>>
  /\ pauseOutcome' = outcome
  /\ UNCHANGED chatVars
  /\ UNCHANGED batchVars

\* variant: every reply of the server counts as an acceptance, whatever its
\* success field
PauseResponseAnyReply(outcome) ==
  /\ pauseFetches > 0
  /\ pauseFetches' = pauseFetches - 1
  /\ IF outcome # "network-error"
     THEN /\ intervals' = ClearTimer(intervals, timerRef)
          /\ onPausedCalls' = onPausedCalls + 1
          /\ pauseAccepts' = pauseAccepts + 1
          /\ UNCHANGED isPausing
     ELSE /\ isPausing' = (IF mounted THEN FALSE ELSE isPausing)
          /\ UNCHANGED <<intervals, onPausedCalls, pauseAccepts>>
  /\ UNCHANGED <<stages, summary, progress, elapsedMs, timerRef, startedRef,
                 analysisState, analysisGen, analysisConns, mounted, runs,
                 lastEv, onCompleteCalls, onErrorCalls, pausedEvents>>
  /\ pauseOutcome' = outcome
  /\ UNCHANGED chatVars
  /\ UNCHANGED batchVars

\* handlePause after the fetch settles
PauseResponse(outcome) ==
  /\ pauseFetches > 0
  /\ pauseFetches' = pauseFetches - 1
  /\ IF outcome = "accepted"
     THEN /\ intervals' = ClearTimer(intervals, timerRef)
          /\ onPausedCalls' = onPausedCalls + 1
          /\ pauseAccepts' = pauseAccepts + 1
          /\ UNCHANGED isPausing
     ELSE /\ isPausing' = (IF mounted THEN FALSE ELSE isPausing)
          /\ UNCHANGED <<intervals, onPausedCalls, pauseAccepts>>
  /\ UNCHANGED <<stages, summary, progress, elapsedMs, timerRef, startedRef,
                 analysisState, analysisGen, analysisConns, mounted, runs,
                 lastEv, onCompleteCalls, onErrorCalls, pausedEvents>>
  /\ pauseOutcome' = outcome
  /\ UNCHANGED chatVars
  /\ UNCHANGED batchVars

\* cleanup that leaves the interval set
UnmountKeepsTimer ==
  /\ mounted
  /\ startedRef
  /\ mounted' = FALSE
  /\ intervals' = intervals
  /\ UNCHANGED <<stages, summary, progress, elapsedMs, isPausing, timerRef,
                 startedRef, analysisState, analysisGen, analysisConns,
                 pauseFetches, runs, lastEv, onCompleteCalls, onErrorCalls,
                 onPausedCalls, pausedEvents, pauseAccepts>>
  /\ UNCHANGED pauseOutcome
  /\ UNCHANGED chatVars
  /\ UNCHANGED batchVars

\* the cleanup of the mount effect
Unmount ==
  /\ mounted
  /\ startedRef
  /\ mounted' = FALSE
  /\ intervals' = ClearTimer(intervals, timerRef)
  /\ UNCHANGED <<stages, summary, progress, elapsedMs, isPausing, timerRef,
                 startedRef, analysisState, analysisGen, analysisConns,
                 pauseFetches, runs, lastEv, onCompleteCalls, onErrorCalls,
                 onPausedCalls, pausedEvents, pauseAccepts>>
  /\ UNCHANGED pauseOutcome
  /\ UNCHANGED chatVars
  /\ UNCHANGED batchVars


\* ------------------------------------------------------------------------
\* useChat: the conversational session
\* ------------------------------------------------------------------------

\* ChatEventData with every field undefined.  Citations and confidence are
\* opaque values: "[]" an empty citation list, "[c1]" a list of one.
NoChatData ==
  [status |-> NoStr, message |-> NoStr, citations |-> NoStr,
   confidence |-> NoStr, conversation_id |-> NoStr, error |-> NoStr]

ChatUpdateEvents ==
  { [event |-> "thinking", data |-> [NoChatData EXCEPT !.status = "Searching"]],
    [event |-> "thinking", data |-> [NoChatData EXCEPT !.status = ""]],
    [event |-> "tool_call",
     data |-> [NoChatData EXCEPT !.message = "Running query_codebase"]],
    [event |-> "tool_call", data |-> NoChatData] }

ChatCompleteEvents ==
  { [event |-> "complete",
     data |-> [NoChatData EXCEPT !.message = "answer", !.citations = "[c1]",
                                 !.confidence = "high",
                                 !.conversation_id = "conv-1"]],
    [event |-> "complete",
     data |-> [NoChatData EXCEPT !.message = "answer", !.citations = "[]"]],
    [event |-> "complete",
     data |-> [NoChatData EXCEPT !.message = "", !.citations = "[]",
                                 !.conversation_id = "conv-2"]],
    \* malformed: no citations
    [event |-> "complete", data |-> [NoChatData EXCEPT !.message = "answer"]] }

ChatErrorEvents ==
  { [event |-> "error", data |-> [NoChatData EXCEPT !.error = "boom"]] }

ChatEvents == ChatUpdateEvents \cup ChatCompleteEvents \cup ChatErrorEvents

ChatContents == {"q1", "q2"}

\* extractResult that takes a payload with a message and no citations
ChatExtractResultPartial(data) ==
  IF data.message # NoStr
  THEN [message |-> data.message,
        citations |-> IF data.citations = NoStr THEN "[]" ELSE data.citations,
        confidence |->
          IF data.confidence = NoStr THEN "null" ELSE data.confidence,
        conversation_id |->
          IF data.conversation_id = NoStr THEN "" ELSE data.conversation_id]
  ELSE NoResult

\* extractResult of the chat stream
ChatExtractResult(data) ==
  IF data.message # NoStr /\ data.citations # NoStr
  THEN [message |-> data.message,
        citations |-> data.citations,
        confidence |->
          IF data.confidence = NoStr THEN "null" ELSE data.confidence,
        conversation_id |->
          IF data.conversation_id = NoStr THEN "" ELSE data.conversation_id]
  ELSE NoResult

\* `Error: ${error}`
ErrorContent(error) ==
  IF error = "boom" THEN "Error: boom"
  ELSE IF error = ClosedMessage THEN "Error: Stream closed"
  ELSE "Error: "

UserTurn(content) ==
  [role |-> "user", content |-> content, citations |-> NoStr,
   confidence |-> NoStr, status |-> NoStr, isError |-> FALSE]

PlaceholderTurn ==
  [role |-> "assistant", content |-> "", citations |-> NoStr,
   confidence |-> NoStr, status |-> "Thinking...", isError |-> FALSE]

FinalTurn(result) ==
  [role |-> "assistant", content |-> result.message,
   citations |-> result.citations, confidence |-> result.confidence,
   status |-> NoStr, isError |-> FALSE]

ErrorTurn(error) ==
  [role |-> "assistant", content |-> ErrorContent(error), citations |-> NoStr,
   confidence |-> NoStr, status |-> NoStr, isError |-> TRUE]

ChatInit ==
  /\ messages = <<>>
  /\ conversationId = NoStr
  /\ assistantIdxRef = 0
  /\ conversationIdRef = NoStr
  /\ renderedStreaming = FALSE
  /\ chatState = SseIdle
  /\ chatGen = 0
  /\ chatConns = {}
  /\ sends = 0
  /\ sentIds = <<>>
  /\ staleDelivered = 0
  /\ lastCompletionId = NoStr
  /\ malformedCompletes = 0
  /\ lastStatus = NoStr

\* SendMessage with the placeholder left to a later update
SendMessageUserOnly(content) ==
  /\ sends < MaxSends
  /\ ~renderedStreaming
  /\ messages' = Append(messages, UserTurn(content))
  /\ assistantIdxRef' = Len(messages) + 2
  /\ chatState' = SseStart(SseReset(chatState))
  /\ IF SseCanStart(SseReset(chatState))
     THEN /\ chatGen' = chatGen + 1
          /\ chatConns' = chatConns \cup {chatGen + 1}
          /\ sentIds' = Append(sentIds, conversationIdRef)
     ELSE UNCHANGED <<chatGen, chatConns, sentIds>>
  /\ sends' = sends + 1
  /\ UNCHANGED <<conversationId, conversationIdRef, renderedStreaming,
                 staleDelivered>>
  /\ UNCHANGED lastCompletionId
  /\ malformedCompletes' = 0
  /\ lastStatus' = NoStr
  /\ UNCHANGED trackerVars
  /\ UNCHANGED batchVars

\* SendMessage with the index of the user turn in assistantIdxRef
SendMessageIndexOffByOne(content) ==
  /\ sends < MaxSends
  /\ ~renderedStreaming
  /\ messages' = messages \o <<UserTurn(content), PlaceholderTurn>>
  /\ assistantIdxRef' = Len(messages) + 1
  /\ chatState' = SseStart(SseReset(chatState))
  /\ IF SseCanStart(SseReset(chatState))
     THEN /\ chatGen' = chatGen + 1
          /\ chatConns' = chatConns \cup {chatGen + 1}
          /\ sentIds' = Append(sentIds, conversationIdRef)
     ELSE UNCHANGED <<chatGen, chatConns, sentIds>>
  /\ sends' = sends + 1
  /\ UNCHANGED <<conversationId, conversationIdRef, renderedStreaming,
                 staleDelivered>>
  /\ UNCHANGED lastCompletionId
  /\ malformedCompletes' = 0
  /\ lastStatus' = NoStr
  /\ UNCHANGED trackerVars
  /\ UNCHANGED batchVars

\* SendMessage that sets assistantIdxRef on the first turn only
SendMessageKeepsIndex(content) ==
  /\ sends < MaxSends
  /\ ~renderedStreaming
  /\ messages' = messages \o <<UserTurn(content), PlaceholderTurn>>
  /\ assistantIdxRef' = (IF assistantIdxRef = 0 THEN Len(messages) + 2
                      ELSE assistantIdxRef)
  /\ chatState' = SseStart(SseReset(chatState))
  /\ IF SseCanStart(SseReset(chatState))
     THEN /\ chatGen' = chatGen + 1
          /\ chatConns' = chatConns \cup {chatGen + 1}
          /\ sentIds' = Append(sentIds, conversationIdRef)
     ELSE UNCHANGED <<chatGen, chatConns, sentIds>>
  /\ sends' = sends + 1
  /\ UNCHANGED <<conversationId, conversationIdRef, renderedStreaming,
                 staleDelivered>>
  /\ UNCHANGED lastCompletionId
  /\ malformedCompletes' = 0
  /\ lastStatus' = NoStr
  /\ UNCHANGED trackerVars
  /\ UNCHANGED batchVars

\* variant: sendMessage drops a placeholder that was left unfinalized before
\* it appends the new pair
SendMessageReplacesPlaceholder(content) ==
  /\ sends < MaxSends
  /\ ~renderedStreaming
  /\ messages' =
       (IF messages # <<>> /\ messages[Len(messages)].status # NoStr
        THEN SubSeq(messages, 1, Len(messages) - 1)
        ELSE messages) \o <<UserTurn(content), PlaceholderTurn>>
  /\ assistantIdxRef' = Len(messages')
  /\ chatState' = SseStart(SseReset(chatState))
  /\ IF SseCanStart(SseReset(chatState))
     THEN /\ chatGen' = chatGen + 1
          /\ chatConns' = chatConns \cup {chatGen + 1}
          /\ sentIds' = Append(sentIds, conversationIdRef)
     ELSE UNCHANGED <<chatGen, chatConns, sentIds>>
  /\ sends' = sends + 1
  /\ UNCHANGED <<conversationId, conversationIdRef, renderedStreaming,
                 staleDelivered>>
  /\ UNCHANGED lastCompletionId
  /\ malformedCompletes' = 0
  /\ lastStatus' = NoStr
  /\ UNCHANGED trackerVars
  /\ UNCHANGED batchVars

\* sendMessage(content)
SendMessage(content) ==
  /\ sends < MaxSends
  /\ ~renderedStreaming
  /\ messages' = messages \o <<UserTurn(content), PlaceholderTurn>>
  /\ assistantIdxRef' = Len(messages) + 2
  /\ chatState' = SseStart(SseReset(chatState))
  /\ IF SseCanStart(SseReset(chatState))
     THEN /\ chatGen' = chatGen + 1
          /\ chatConns' = chatConns \cup {chatGen + 1}
          /\ sentIds' = Append(sentIds, conversationIdRef)
     ELSE UNCHANGED <<chatGen, chatConns, sentIds>>
  /\ sends' = sends + 1
  /\ UNCHANGED <<conversationId, conversationIdRef, renderedStreaming,
                 staleDelivered>>
  /\ UNCHANGED lastCompletionId
  /\ malformedCompletes' = 0
  /\ lastStatus' = NoStr
  /\ UNCHANGED trackerVars
  /\ UNCHANGED batchVars

\* A state update has been queued and the hook has not rendered since.
\* React renders before the transport hands over its next chunk, so only
\* calls made by the caller in the same tick run against the old closures.
RenderPending ==
  \/ renderedStreaming # (chatState.status = "streaming")
  \/ conversationIdRef # conversationId

\* a render of the hook: the closures of the next calls see the current state
ChatRender ==
  /\ RenderPending
  /\ renderedStreaming' = (chatState.status = "streaming")
  /\ conversationIdRef' = conversationId
  /\ UNCHANGED <<messages, conversationId, assistantIdxRef, chatState,
                 chatGen, chatConns, sends, sentIds, staleDelivered>>
  /\ UNCHANGED <<lastCompletionId, malformedCompletes, lastStatus>>
  /\ UNCHANGED trackerVars
  /\ UNCHANGED batchVars

\* onUpdate that writes a status only over the initial one
ChatOnUpdateKeepsFirst(event, data) ==
  LET idx == assistantIdxRef
  IN  IF idx < 1 \/ messages[idx].status # "Thinking..."
      THEN UNCHANGED messages
      ELSE IF event = "thinking" /\ TruthyStr(data.status)
           THEN messages' = [messages EXCEPT ![idx].status = data.status]
           ELSE IF event = "tool_call" /\ TruthyStr(data.message)
                THEN messages' = [messages EXCEPT ![idx].status = data.message]
                ELSE UNCHANGED messages

\* onUpdate(event, data) of the chat stream
ChatOnUpdate(event, data) ==
  LET idx == assistantIdxRef
  IN  IF idx < 1
      THEN UNCHANGED messages
      ELSE IF event = "thinking" /\ TruthyStr(data.status)
           THEN messages' = [messages EXCEPT ![idx].status = data.status]
           ELSE IF event = "tool_call" /\ TruthyStr(data.message)
                THEN messages' = [messages EXCEPT ![idx].status = data.message]
                ELSE UNCHANGED messages

\* onComplete that merges the result into the placeholder, status included
ChatOnCompleteKeepsStatus(result) ==
  LET idx == assistantIdxRef
  IN  IF idx < 1
      THEN UNCHANGED <<messages, conversationId>>
      ELSE /\ messages' =
                [messages EXCEPT
                   ![idx] = [FinalTurn(result) EXCEPT
                               !.status = messages[idx].status]]
           /\ conversationId' =
                IF TruthyStr(result.conversation_id)
                THEN result.conversation_id
                ELSE conversationId

\* onComplete that stores the conversation_id of every result, empty or not
ChatOnCompleteStoresEmptyId(result) ==
  LET idx == assistantIdxRef
  IN  IF idx < 1
      THEN UNCHANGED <<messages, conversationId>>
      ELSE /\ messages' = [messages EXCEPT ![idx] = FinalTurn(result)]
           /\ conversationId' = result.conversation_id

\* variant: a completion without identifier clears the stored one
ChatOnCompleteResetsId(result) ==
  LET idx == assistantIdxRef
  IN  IF idx < 1
      THEN UNCHANGED <<messages, conversationId>>
      ELSE /\ messages' = [messages EXCEPT ![idx] = FinalTurn(result)]
           /\ conversationId' =
                IF TruthyStr(result.conversation_id)
                THEN result.conversation_id
                ELSE NoStr

\* onComplete(result) of the chat stream
ChatOnComplete(result) ==
  LET idx == assistantIdxRef
  IN  IF idx < 1
      THEN UNCHANGED <<messages, conversationId>>
      ELSE /\ messages' = [messages EXCEPT ![idx] = FinalTurn(result)]
           /\ conversationId' =
                IF TruthyStr(result.conversation_id)
                THEN result.conversation_id
                ELSE conversationId

\* onError that writes the error text without marking the turn as an error
ChatOnErrorUnmarked(error) ==
  LET idx == assistantIdxRef
  IN  IF idx < 1
      THEN UNCHANGED messages
      ELSE messages' =
             [messages EXCEPT ![idx] = [ErrorTurn(error) EXCEPT !.isError = FALSE]]

\* variant: onError adds the error turn after the placeholder
ChatOnErrorAppends(error) ==
  LET idx == assistantIdxRef
  IN  IF idx < 1
      THEN UNCHANGED messages
      ELSE messages' = Append(messages, ErrorTurn(error))

\* onError(error) of the chat stream
ChatOnError(error) ==
  LET idx == assistantIdxRef
  IN  IF idx < 1
      THEN UNCHANGED messages
      ELSE messages' = [messages EXCEPT ![idx] = ErrorTurn(error)]

\* e is a complete event whose payload lacks the message or the citations
ChatMalformed(e) ==
  e.event = "complete"
    /\ (e.data.message = NoStr \/ e.data.citations = NoStr)

\* the status text a thinking or tool_call event carries, NoStr if none
ChatStatusOf(e) ==
  IF e.event = "thinking" /\ TruthyStr(e.data.status) THEN e.data.status
  ELSE IF e.event = "tool_call" /\ TruthyStr(e.data.message)
       THEN e.data.message
       ELSE NoStr

\* Connection g is not the one the chat session is streaming on: its
\* generation was superseded by a later start, or the session has left
\* Streaming.
ChatStale(g) == g # chatGen \/ chatState.status # "streaming"

\* The transport delivers event e on connection g of the chat stream.
ChatDeliver(g, e) ==
  /\ g \in chatConns
  /\ ~RenderPending
  /\ ChatStale(g) => staleDelivered < MaxStale
  /\ (~ChatStale(g) /\ ChatMalformed(e))
       => malformedCompletes < MaxMalformed
  /\ malformedCompletes' =
       malformedCompletes
         + (IF ~ChatStale(g) /\ ChatMalformed(e) THEN 1 ELSE 0)
  /\ lastStatus' =
       IF ChatStale(g) \/ ChatMalformed(e) THEN lastStatus
       ELSE IF e.event \in {"complete", "error"} THEN NoStr
       ELSE IF ChatStatusOf(e) # NoStr THEN ChatStatusOf(e)
       ELSE lastStatus
  /\ staleDelivered' = staleDelivered + (IF ChatStale(g) THEN 1 ELSE 0)
  /\ IF SseApplies(chatState, chatGen, g)
     THEN /\ IF e.event = "complete" /\ ChatExtractResult(e.data) # NoResult
             THEN /\ chatState' =
                       SseComplete(chatState, ChatExtractResult(e.data))
                  /\ ChatOnComplete(ChatExtractResult(e.data))
                  /\ lastCompletionId' =
                       IF TruthyStr(e.data.conversation_id)
                       THEN e.data.conversation_id
                       ELSE lastCompletionId
             ELSE IF e.event = "error"
                  THEN /\ chatState' = SseError(chatState, e.data.error)
                       /\ ChatOnError(e.data.error)
                       /\ UNCHANGED <<conversationId, lastCompletionId>>
                  ELSE /\ ChatOnUpdate(e.event, e.data)
                       /\ UNCHANGED <<chatState, conversationId,
                                      lastCompletionId>>
     ELSE UNCHANGED <<messages, conversationId, chatState, lastCompletionId>>
  /\ UNCHANGED <<assistantIdxRef, conversationIdRef, renderedStreaming,
                 chatGen, chatConns, sends, sentIds>>
  /\ UNCHANGED trackerVars
  /\ UNCHANGED batchVars

\* The transport connection g of the chat stream closes.
ChatClose(g) ==
  /\ g \in chatConns
  /\ ~RenderPending
  /\ chatConns' = chatConns \ {g}
  /\ IF SseApplies(chatState, chatGen, g)
     THEN /\ chatState' = SseError(chatState, ClosedMessage)
          /\ ChatOnError(ClosedMessage)
          /\ lastStatus' = NoStr
     ELSE UNCHANGED <<chatState, messages, lastStatus>>
  /\ UNCHANGED <<conversationId, assistantIdxRef, conversationIdRef,
                 renderedStreaming, chatGen, sends, sentIds, staleDelivered>>
  /\ UNCHANGED <<lastCompletionId, malformedCompletes>>
  /\ UNCHANGED trackerVars
  /\ UNCHANGED batchVars

\* cancel(), while streaming: the session goes idle at once, the transport
\* is torn down later
ChatCancel ==
  /\ chatState.status = "streaming"
  /\ chatState' = SseCancel(chatState)
  /\ UNCHANGED <<messages, conversationId, assistantIdxRef, conversationIdRef,
                 renderedStreaming, chatGen, chatConns, sends, sentIds,
                 staleDelivered>>
  /\ lastStatus' = NoStr
  /\ UNCHANGED <<lastCompletionId, malformedCompletes>>
  /\ UNCHANGED trackerVars
  /\ UNCHANGED batchVars

\* ------------------------------------------------------------------------
\* Specifications
\* ------------------------------------------------------------------------
vars == <<trackerVars, chatVars, batchVars>>

BatchInit ==
  /\ pendingUpdates = <<>>
  /\ delivered = <<>>

Init == TrackerInit /\ ChatInit /\ BatchInit

\* the events of the lifecycle specification: two stage names, a snapshot,
\* an update without a name, paused, complete (well-formed and not), error
LifecycleEvents ==
  { [event |-> "stage", data |-> StageData(n, sd[1], sd[2])] :
      n \in {"A", "B"}, sd \in {<<"running", NoNum>>, <<"done", 1500>>} }
    \cup { [event |-> "stage",
            data |-> WithSnapshot(StageData("A", "pending", NoNum), 1, 4, 25)],
           [event |-> "stage", data |-> [NoData EXCEPT !.status = "done"]],
           PausedEvent,
           [event |-> "complete",
            data |-> [NoData EXCEPT !.project_id = "p1", !.sections = 0]],
           [event |-> "complete", data |-> [NoData EXCEPT !.sections = 3]],
           [event |-> "error", data |-> [NoData EXCEPT !.error = "boom"]] }

\* the whole life of one progress tracker
Next ==
  \/ Mount
  \/ Retry
  \/ \E g \in 1..MaxRuns, e \in LifecycleEvents : AnalysisDeliver(g, e)
  \/ \E g \in 1..MaxRuns : AnalysisClose(g)
  \/ \E id \in 1..MaxRuns : Tick(id)
  \/ PauseClick
  \/ \E o \in PauseOutcomes : PauseResponse(o)
  \/ Unmount

Spec == Init /\ [][Next]_vars

\* one run of a progress tracker over every stage, complete and error
\* event, without the pause side channel, the ticker and Retry
StageNext ==
  \/ Mount
  \/ \E g \in 1..MaxRuns, e \in AnalysisEvents \ {PausedEvent} :
       AnalysisDeliver(g, e)
  \/ \E g \in 1..MaxRuns : AnalysisClose(g)

StageSpec == Init /\ [][StageNext]_vars

\* The function passed to setStages, run against the list of the last
\* render instead of the list React hands to it
StagesUpdaterFromRendered(rendered, prev, data) ==
  UpsertStage(rendered, MkStage(data))

\* The function onUpdate passes to setStages for a payload: React calls it
\* with prev, the list left by the updates queued before it; rendered, the
\* list of the last render, is what a closure over stages would see.
StagesUpdater(rendered, prev, data) == UpsertStage(prev, MkStage(data))

\* React runs the queued updaters in the order they were queued
RECURSIVE ApplyUpdaters(_, _, _)
ApplyUpdaters(rendered, prev, queue) ==
  IF queue = <<>> THEN prev
  ELSE ApplyUpdaters(rendered, StagesUpdater(rendered, prev, Head(queue)),
                     Tail(queue))

\* the queued setProgress calls: each stores its own snapshot
RECURSIVE ApplyProgress(_, _)
ApplyProgress(prev, queue) ==
  IF queue = <<>> THEN prev
  ELSE ApplyProgress(NextProgress(prev, Head(queue)), Tail(queue))

\* the update events of a burst
BatchEvents == RichStageEvents \cup OtherUpdateEvents

\* variant: onUpdate queues the state updates of every payload, named or not
BatchDeliverQueuesAll(e) ==
  /\ mounted
  /\ analysisState.status = "streaming"
  /\ analysisGen \in analysisConns
  /\ Len(delivered) < MaxBurst
  /\ delivered' = Append(delivered, e)
  /\ pendingUpdates' = Append(pendingUpdates, e.data)
  /\ UNCHANGED trackerVars
  /\ UNCHANGED chatVars

\* onUpdate for an event of a burst: the state updates of a payload with a
\* name are queued until the next render
BatchDeliver(e) ==
  /\ mounted
  /\ analysisState.status = "streaming"
  /\ analysisGen \in analysisConns
  /\ Len(delivered) < MaxBurst
  /\ delivered' = Append(delivered, e)
  /\ pendingUpdates' =
       IF TruthyStr(e.data.name) THEN Append(pendingUpdates, e.data)
       ELSE pendingUpdates
  /\ UNCHANGED trackerVars
  /\ UNCHANGED chatVars

\* a render of the tracker: React applies the queued updates
BatchRender ==
  /\ pendingUpdates # <<>>
  /\ stages' = ApplyUpdaters(stages, stages, pendingUpdates)
  /\ progress' = ApplyProgress(progress, pendingUpdates)
  /\ pendingUpdates' = <<>>
  /\ UNCHANGED <<summary, elapsedMs, isPausing, timerRef, startedRef,
                 analysisState, analysisGen, analysisConns, intervals,
                 pauseFetches, mounted, runs, lastEv, onCompleteCalls,
                 onErrorCalls, onPausedCalls, pausedEvents, pauseAccepts,
                 pauseOutcome>>
  /\ UNCHANGED delivered
  /\ UNCHANGED chatVars

\* one run of a progress tracker whose update events arrive in bursts
BatchNext ==
  \/ Mount
  \/ \E e \in BatchEvents : BatchDeliver(e)
  \/ BatchRender

BatchSpec == Init /\ [][BatchNext]_vars

\* the conversational session alone
ChatNext ==
  \/ \E c \in ChatContents : SendMessage(c)
  \/ ChatRender
  \/ \E g \in 1..MaxSends, e \in ChatEvents : ChatDeliver(g, e)
  \/ \E g \in 1..MaxSends : ChatClose(g)
  \/ ChatCancel

ChatSpec == Init /\ [][ChatNext]_vars

\* ------------------------------------------------------------------------
\* Properties of the stage set, the overall percent and the ETA
\* ------------------------------------------------------------------------
StageIndexes == 1..Len(stages)

HasFullSnapshot(data) ==
  data.completed # NoNum /\ data.total # NoNum /\ data.percent # NoNum

\* C1: after any sequence of stage events of one run, the Stage set holds
\* exactly one record per distinct name observed, and that record is the
\* one built from the last event observed for the name.
C1_UpsertByName ==
  /\ \A i, j \in StageIndexes : stages[i].name = stages[j].name => i = j
  /\ \A n \in StageNames :
       lastEv[n] # NoData <=> \E i \in StageIndexes : stages[i].name = n
  /\ \A i \in StageIndexes :
       /\ stages[i].name \in StageNames
       /\ stages[i] = MkStage(lastEv[stages[i].name])

\* Stage A was reported with the 25% snapshot and later reported Done, and
\* B was reported as well: a name repeated within the run.
C1_Witness ==
  /\ progress = [completed |-> 1, total |-> 4, percent |-> 25]
  /\ lastEv["A"] = StageData("A", "done", 1500)
  /\ Len(stages) = 2
  /\ stages[1].name = "A"
  /\ stages[1].status = "done"

\* a step that applies a stage event of the current run
StageEventStep == runs' = runs /\ lastEv' # lastEv

NoDoneRegress ==
  \A i \in StageIndexes : stages[i].status = "done" => stages'[i].status = "done"

NewOpenStage ==
  /\ Len(stages') > Len(stages)
  /\ stages'[Len(stages')].status # "done"

\* C3 as stated: without a snapshot and without a stage leaving Done,
\* overallPercent never decreases across a stage event, new names included.
C3_PercentMonotone ==
  [][ (StageEventStep /\ progress' = NoProgress /\ NoDoneRegress)
        => OverallPercent(progress', stages') >= OverallPercent(progress, stages)
    ]_vars

\* C3 amended: without a snapshot and without a stage leaving Done,
\* overallPercent never decreases across a stage event that updates an
\* existing name or introduces a name with status Done.
C3_PercentMonotoneKnownNames ==
  [][ (StageEventStep /\ progress' = NoProgress /\ NoDoneRegress
         /\ ~NewOpenStage)
        => OverallPercent(progress', stages') >= OverallPercent(progress, stages)
    ]_vars

\* Without a snapshot, two of three stages are Done: 67 percent.
C3_Witness ==
  /\ progress = NoProgress
  /\ Len(stages) = 3
  /\ OverallPercent(progress, stages) = 67

AllDonePositive ==
  \A i \in StageIndexes : stages[i].status = "done" => stages[i].duration_ms > 0

\* C6: estimatedRemainingMs is zero (not shown) with fewer than two Done
\* stages, and positive with two or more Done stages of positive duration
\* and at least one Running or Pending stage.
C6_EtaNeedsTwoSamples ==
  /\ CountStatus(stages, {"done"}) < 2 => EstimatedRemainingMs(stages) = 0
  /\ ( /\ CountStatus(stages, {"done"}) >= 2
       /\ AllDonePositive
       /\ CountStatus(stages, {"running", "pending"}) >= 1 )
     => EstimatedRemainingMs(stages) > 0

\* Two stages Done in 1500 ms each and one stage open: 1500 ms remain.
C6_Witness ==
  /\ CountStatus(stages, {"done"}) = 2
  /\ CountStatus(stages, {"running", "pending"}) = 1
  /\ EstimatedRemainingMs(stages) = 1500

\* C7: overallPercent is the percent of the stored snapshot when there is
\* one, otherwise the integer nearest to 100 * done / total (halves up),
\* and 0 without stages; a snapshot is stored once an event of the run
\* carried a full one.
C7_OverallPercent ==
  LET p == OverallPercent(progress, stages)
      done == CountStatus(stages, {"done"})
      total == Len(stages)
  IN  /\ (\E n \in StageNames : HasFullSnapshot(lastEv[n]))
           => progress # NoProgress
      /\ progress # NoProgress => p = progress.percent
      /\ (progress = NoProgress /\ total > 0) =>
           /\ 2 * total * p <= 200 * done + total
           /\ 200 * done + total < 2 * total * (p + 1)
      /\ (progress = NoProgress /\ total = 0) => p = 0

\* One of three stages Done and no snapshot: 33 percent.
C7_Witness ==
  /\ progress = NoProgress
  /\ Len(stages) = 3
  /\ CountStatus(stages, {"done"}) = 1
  /\ OverallPercent(progress, stages) = 33


\* ------------------------------------------------------------------------
\* Properties of the run lifecycle of the progress tracker
\* ------------------------------------------------------------------------

\* C2 as stated: when a pause request was accepted and a "paused" stream
\* event was applied in the same run, in either order, the pause callback
\* was invoked exactly once and the ticker is stopped.
C2_PauseAppliedOnce ==
  (pauseAccepts >= 1 /\ pausedEvents >= 1)
    => (onPausedCalls = 1 /\ intervals = {})

C8_CompleteStep ==
  (analysisState.status = "streaming" /\ analysisState'.status = "complete")
    => /\ stages' = stages
       /\ summary' = analysisState'.result
       /\ summary' \in {AnalysisExtractResult(e.data) : e \in CompleteEvents}
                         \ {NoSummary}
       /\ intervals' = {}
       /\ onCompleteCalls' = 1

C8_CompleteState ==
  analysisState.status = "complete"
    => /\ summary # NoSummary
       /\ summary = analysisState.result
       /\ intervals = {}
       /\ onCompleteCalls = 1
       /\ stages = <<MkStage(StageData("A", "done", 1500)),
                     MkStage(StageData("B", "running", NoNum))>>
            => EstimatedRemainingMs(stages) = 0

\* C8: a well-formed complete event stops the ticker, sets the RunSummary
\* from the event, invokes the completion callback exactly once in the run
\* and leaves every stage as last reported; after [A Running, A Done 1500,
\* B Running, complete] the Stage set is <<A Done, B Running>> and no
\* estimatedRemainingMs is reported.
C8_Complete == [][C8_CompleteStep]_vars /\ []C8_CompleteState

\* The run [A Running, A Done 1500 ms, B Running, complete] has completed.
C8_Witness ==
  /\ analysisState.status = "complete"
  /\ stages = <<MkStage(StageData("A", "done", 1500)),
                MkStage(StageData("B", "running", NoNum))>>
  /\ summary.project_id = "p1"
  /\ elapsedMs > 0

\* C9: after an error event with message m arrived while streaming, the
\* status is Error with message m, the ticker is stopped and the error
\* callback was invoked exactly once in the run.
C9_ErrorEvent ==
  analysisState.status = "error"
    => /\ intervals = {}
       /\ onErrorCalls = 1
       /\ onCompleteCalls = 0
       /\ analysisGen \in analysisConns => analysisState.error = "boom"

\* The error event "boom" arrived mid-stream, after a stage and a tick.
C9_Witness ==
  /\ analysisState.status = "error"
  /\ analysisState.error = "boom"
  /\ Len(stages) = 2
  /\ elapsedMs > 0
  /\ analysisGen \in analysisConns

C10_StartStep ==
  runs' = runs + 1
    => /\ stages' = <<>>
       /\ summary' = NoSummary
       /\ progress' = NoProgress
       /\ elapsedMs' = 0

C10_OnlyThisRun ==
  \A i \in StageIndexes : lastEv[stages[i].name] # NoData

\* C10: startAnalysis (the first start and Retry alike) empties the Stage
\* set, the RunSummary, the progress snapshot and the elapsed time, and
\* every stage in the Stage set was reported by an event of the current
\* run.
C10_CleanSlate == [][C10_StartStep]_vars /\ []C10_OnlyThisRun

\* The second run, after a Retry, has seen stage B only.
C10_Witness ==
  /\ runs = 2
  /\ Len(stages) = 1
  /\ stages[1].name = "B"
  /\ analysisState.status = "streaming"

\* ------------------------------------------------------------------------
\* Properties of the conversational session
\* ------------------------------------------------------------------------

C4_CancelStep ==
  /\ (chatState.status = "streaming" /\ chatState'.status = "idle")
       => (chatState'.result = NoResult /\ messages' = messages)
  /\ staleDelivered' # staleDelivered
       => /\ chatState' = chatState
          /\ messages' = messages
          /\ conversationId' = conversationId
  /\ (chatState.status = "idle" /\ chatGen >= 1 /\ sends' = sends)
       => (chatState' = chatState /\ messages' = messages)

\* C4: cancel() while streaming moves the session to Idle in the same step
\* without a result, and an event delivered after the cancel changes
\* neither the status, the result nor the transcript.
C4_CancelDiscards == [][C4_CancelStep]_vars

\* The session was cancelled after a status update, and the transport has
\* delivered one more event on the connection that is still open.
C4_Witness ==
  /\ chatState.status = "idle"
  /\ chatGen \in chatConns
  /\ staleDelivered = 1
  /\ Len(messages) = 2
  /\ messages[2].status = "Searching"

\* C5 as stated: while the stream of an earlier sendMessage is active, no
\* step makes the transcript longer and no step starts another stream.
C5_SecondSendIsNoOp ==
  [][ chatState.status = "streaming"
        => (Len(messages') = Len(messages) /\ chatGen' = chatGen) ]_vars

\* C11: the transcript never ends with a User turn, and a step that adds
\* turns adds exactly a User turn followed by the placeholder Assistant
\* turn (empty content, thinking status).
C11_AppendStep ==
  Len(messages') # Len(messages)
    => /\ Len(messages') = Len(messages) + 2
       /\ SubSeq(messages', 1, Len(messages)) = messages
       /\ messages'[Len(messages) + 1].role = "user"
       /\ messages'[Len(messages) + 2].role = "assistant"
       /\ messages'[Len(messages) + 2].content = ""
       /\ messages'[Len(messages) + 2].status = "Thinking..."

C11_NeverEndsWithUser ==
  /\ [][C11_AppendStep]_vars
  /\ [](messages # <<>> => messages[Len(messages)].role = "assistant")

\* Two turns were accepted; the second placeholder is the last element.
C11_Witness ==
  /\ Len(messages) = 4
  /\ messages[3].role = "user"
  /\ messages[4] = PlaceholderTurn
  /\ messages[2].status = NoStr

\* C12: the conversation_id sent with the first turn is null, and the one
\* sent with any turn is the conversation_id of the most recent complete
\* event that carried one (null when none has): the client sends no
\* identifier that a complete event did not deliver.
C12_SendStep ==
  sentIds' # sentIds
    => /\ sentIds' = Append(sentIds, lastCompletionId)
       /\ sentIds = <<>> => sentIds'[1] = NoStr

C12_SentConversationId ==
  /\ [][C12_SendStep]_vars
  /\ [](\A i \in 1..Len(sentIds) : sentIds[i] \in {NoStr, "conv-1", "conv-2"})

\* The second turn was sent with the identifier the first completion carried.
C12_Witness ==
  /\ Len(sentIds) = 2
  /\ sentIds[1] = NoStr
  /\ sentIds[2] = "conv-1"
  /\ messages[2].content = "answer"

\* C13: the only turn a handler writes is the last element of the
\* transcript: a step that changes an existing turn changes the last one
\* and no other, adds no turn, and assistantIdxRef names the last element
\* whenever the transcript is not empty.
C13_WriteStep ==
  \A i \in 1..Len(messages) :
    (Len(messages') < i \/ messages'[i] # messages[i])
      => /\ i = Len(messages)
         /\ Len(messages') = Len(messages)
         /\ i = assistantIdxRef

C13_OnlyLastTurnWritten ==
  /\ [][C13_WriteStep]_vars
  /\ [](assistantIdxRef = Len(messages))

\* A status update was written to the placeholder of the second turn while
\* the first turn keeps its final answer.
C13_Witness ==
  /\ Len(messages) = 4
  /\ chatState.status = "streaming"
  /\ messages[4].status = "Searching"
  /\ messages[2].content = "answer"
  /\ messages[2].status = NoStr

\* C14: no step removes a turn, changes a User turn, or changes an
\* Assistant turn that a completion or an error has finalized.
Finalized(m) == m.role = "assistant" /\ m.status = NoStr

C14_FrameStep ==
  /\ Len(messages') >= Len(messages)
  /\ \A i \in 1..Len(messages) :
       (messages[i].role = "user" \/ Finalized(messages[i]))
         => messages'[i] = messages[i]

C14_AppendOnly == [][C14_FrameStep]_vars

\* A failed first turn and a completed second turn: both finalized, with a
\* late event delivered on a connection that is no longer live.
C14_Witness ==
  /\ Len(messages) = 4
  /\ messages[2].isError
  /\ messages[4].content = "answer"
  /\ Finalized(messages[4])
  /\ staleDelivered = 1

\* C15: an error event with message "boom" turns the placeholder into an
\* Assistant turn with content "Error: boom" and isError set and leaves
\* every earlier turn as it was; a sendMessage made once the session is in
\* Error is accepted: it appends a User turn and a placeholder after the
\* failed turn and opens a stream.
C15_ErrorStep ==
  (chatState.status = "streaming" /\ chatState'.status = "error"
     /\ chatState'.error = "boom")
    => /\ Len(messages') = Len(messages)
       /\ messages'[Len(messages)].role = "assistant"
       /\ messages'[Len(messages)].content = "Error: boom"
       /\ messages'[Len(messages)].isError
       /\ \A i \in 1..(Len(messages) - 1) : messages'[i] = messages[i]

C15_FollowUpStep ==
  (chatState.status = "error" /\ sends' # sends)
    => /\ messages[Len(messages)].isError
       /\ Len(messages') = Len(messages) + 2
       /\ SubSeq(messages', 1, Len(messages)) = messages
       /\ messages'[Len(messages) + 1].role = "user"
       /\ messages'[Len(messages) + 2] = PlaceholderTurn
       /\ chatState'.status = "streaming"
       /\ chatGen' = chatGen + 1

C15_ErrorThenSend ==
  /\ [][C15_ErrorStep /\ C15_FollowUpStep]_vars
  /\ []((chatState.status = "error" /\ ~RenderPending /\ sends < MaxSends)
          => ENABLED SendMessage("q2"))

\* The first turn failed with "boom" and the next sendMessage was accepted.
C15_Witness ==
  /\ Len(messages) = 4
  /\ messages[2].content = "Error: boom"
  /\ messages[2].isError
  /\ messages[3].role = "user"
  /\ messages[4] = PlaceholderTurn
  /\ chatState.status = "streaming"
  /\ chatGen = 2

\* C16: at most one pause request is awaiting its response at any time,
\* and a request is issued only while the pausing flag is clear.
C16_RequestStep ==
  pauseFetches' > pauseFetches
    => (~isPausing /\ pauseFetches = 0 /\ isPausing')

C16_OnePauseInFlight ==
  /\ [][C16_RequestStep]_vars
  /\ [](pauseFetches <= 1)
  /\ []((mounted /\ pauseFetches = 1) => isPausing)

\* A second pause request is in flight after the first one failed.
C16_Witness ==
  /\ pauseFetches = 1
  /\ isPausing
  /\ pauseOutcome = "network-error"
  /\ analysisState.status = "streaming"

\* C17: when a pause request fails at network level, the pausing flag is
\* cleared, the pause callback is not invoked and no ticker is stopped.
C17_NetworkFailureStep ==
  (pauseFetches' < pauseFetches /\ pauseOutcome' = "network-error")
    => /\ mounted => ~isPausing'
       /\ onPausedCalls' = onPausedCalls
       /\ intervals' = intervals
       /\ timerRef' = timerRef
       /\ pauseAccepts' = pauseAccepts

C17_NetworkFailureClearsFlag == [][C17_NetworkFailureStep]_vars

\* The request failed while the run was streaming with its ticker live;
\* the flag is clear again and the callback has not run.
C17_Witness ==
  /\ pauseOutcome = "network-error"
  /\ pauseFetches = 0
  /\ mounted
  /\ ~isPausing
  /\ onPausedCalls = 0
  /\ analysisState.status = "streaming"
  /\ timerRef \in intervals
  /\ Len(stages) >= 1

\* C18: a pause request that fails changes neither the stream status (it
\* never becomes Error because of it) nor the Stage set, the progress
\* snapshot or the RunSummary.
C18_FailedPauseStep ==
  (pauseFetches' < pauseFetches /\ pauseOutcome' # "accepted")
    => /\ analysisState' = analysisState
       /\ stages' = stages
       /\ progress' = progress
       /\ summary' = summary
       /\ onErrorCalls' = onErrorCalls

C18_FailedPauseKeepsSession == [][C18_FailedPauseStep]_vars

\* A refused request left a streaming run with a stage and a snapshot.
C18_Witness ==
  /\ pauseOutcome = "refused"
  /\ pauseFetches = 0
  /\ analysisState.status = "streaming"
  /\ Len(stages) >= 1
  /\ progress # NoProgress
  /\ onErrorCalls = 0

\* C19: the chat session is always in exactly one of idle, streaming,
\* complete and error and is idle before the first start; from complete or
\* error its state changes only in a step of sendMessage, which resets and
\* starts it, so a stream that is running carries no result and no error
\* of an earlier one.
C19_Statuses == {"idle", "streaming", "complete", "error"}

C19_TerminalStep ==
  (chatState.status \in {"complete", "error"} /\ chatState' # chatState)
    => /\ sends' = sends + 1
       /\ chatState' = [status |-> "streaming", error |-> NoStr,
                        result |-> NoResult]

C19_Lifecycle ==
  /\ [][C19_TerminalStep]_vars
  /\ [](chatState.status \in C19_Statuses)
  /\ [](chatGen = 0 => chatState = SseIdle)
  /\ [](chatState.status \in {"idle", "streaming"}
          => (chatState.error = NoStr /\ chatState.result = NoResult))
  /\ [](chatState.status = "complete" => chatState.result # NoResult)
  /\ [](chatState.status = "error" => chatState.error # NoStr)

\* A second stream is running after the first one completed.
C19_Witness ==
  /\ chatState.status = "streaming"
  /\ chatGen = 2
  /\ Len(messages) = 4
  /\ messages[2].content = "answer"

\* C20 as stated: a sendMessage that gets past the guard while the session
\* is streaming changes neither the transcript, the placeholder index nor
\* the session, and opens no stream.
C20_StartWhileStreamingIsNoOp ==
  [][ (chatState.status = "streaming" /\ sends' # sends)
        => UNCHANGED <<messages, assistantIdxRef, chatState, chatGen,
                       chatConns>> ]_vars

\* C21: when the transport of the live connection closes while the
\* session is streaming, the session ends in Error with the generic
\* message and onError runs; a mounted tracker is never left streaming on
\* a closed transport, and a session that has started is never idle.
C21_CloseStep ==
  (mounted /\ analysisState.status = "streaming"
     /\ analysisGen \in analysisConns /\ analysisGen \notin analysisConns')
    => /\ analysisState'.status = "error"
       /\ analysisState'.error = ClosedMessage
       /\ analysisState'.result = NoResult
       /\ onErrorCalls' = onErrorCalls + 1
       /\ summary' = NoSummary

C21_CloseIsError ==
  /\ [][C21_CloseStep]_vars
  /\ []((mounted /\ analysisState.status = "streaming")
          => analysisGen \in analysisConns)
  /\ [](runs >= 1 => analysisState.status # "idle")

\* The stream closed after a stage event and before any completion: the
\* session is in Error with the generic message.
C21_Witness ==
  /\ analysisState.status = "error"
  /\ analysisState.error = ClosedMessage
  /\ analysisGen \notin analysisConns
  /\ Len(stages) >= 1
  /\ summary = NoSummary
  /\ onErrorCalls = 1

\* C22: an event delivered on a connection whose generation was
\* superseded by a new start, or whose session was cancelled or has
\* ended, is dropped: it changes neither the transcript, the status and
\* result of the session, the conversation id nor the placeholder index.
C22_StaleStep ==
  staleDelivered' # staleDelivered
    => UNCHANGED <<messages, chatState, conversationId, assistantIdxRef,
                   chatGen, sentIds>>

C22_StaleEventsDropped == [][C22_StaleStep]_vars

\* An event of the first generation arrived while the second generation
\* was streaming; the second placeholder is as its own stream left it.
C22_Witness ==
  /\ chatGen = 2
  /\ 1 \in chatConns
  /\ chatState.status = "streaming"
  /\ staleDelivered = 1
  /\ Len(messages) = 4
  /\ messages[4] = PlaceholderTurn
  /\ messages[2].status = "Searching"

\* C23: a complete event whose payload fails result extraction leaves the
\* chat session streaming and runs neither onComplete nor onError (session,
\* transcript and conversation id are unchanged); a complete event applied
\* later in the same stream completes the session with its own result.
C23_MalformedStep ==
  malformedCompletes' > malformedCompletes
    => /\ chatState.status = "streaming"
       /\ chatState' = chatState
       /\ messages' = messages
       /\ conversationId' = conversationId

C23_LaterCompleteStep ==
  (malformedCompletes >= 1 /\ chatState.status = "streaming"
     /\ chatState'.status = "complete")
    => /\ chatState'.result # NoResult
       /\ chatState'.result.citations # NoStr
       /\ messages'[Len(messages)].content = chatState'.result.message
       /\ messages'[Len(messages)].citations = chatState'.result.citations
       /\ malformedCompletes' = malformedCompletes

C23_MalformedCompleteIsUpdate ==
  [][C23_MalformedStep /\ C23_LaterCompleteStep]_vars

\* A complete event without citations was applied to the first stream, and
\* a well-formed one after it completed the turn.
C23_Witness ==
  /\ malformedCompletes = 1
  /\ chatGen = 1
  /\ chatState.status = "complete"
  /\ chatState.result.citations = "[c1]"
  /\ messages[2].content = "answer"
  /\ messages[2].citations = "[c1]"

\* C24: no ticker is running once the run has ended by complete, by
\* error, by an applied pause (stream event or accepted request) or by the
\* teardown of the tracker; a ticker that is running is the one of the
\* current run, and that run is streaming in a mounted tracker.
C24_RunEnded ==
  \/ analysisState.status \in {"complete", "error"}
  \/ pausedEvents > 0
  \/ pauseAccepts > 0
  \/ ~mounted

C24_NoTickerAfterEnd ==
  /\ C24_RunEnded => intervals = {}
  /\ intervals # {}
       => /\ intervals = {timerRef}
          /\ mounted
          /\ analysisState.status = "streaming"

\* The tracker was torn down in the middle of a run whose ticker had
\* ticked: no interval is left.
C24_Witness ==
  /\ ~mounted
  /\ analysisState.status = "streaming"
  /\ elapsedMs > 0
  /\ Len(stages) >= 1
  /\ pausedEvents = 0
  /\ pauseAccepts = 0
  /\ intervals = {}

\* C25: the step that applies a "paused" stream event clears the ticker
\* and calls onPaused once, while the stream is still streaming, and
\* changes neither the Stage set, the progress snapshot, the RunSummary,
\* the pausing flag nor the session.
C25_PausedStep ==
  pausedEvents' = pausedEvents + 1
    => /\ timerRef \notin intervals'
       /\ intervals' = {}
       /\ onPausedCalls' = onPausedCalls + 1
       /\ analysisState.status = "streaming"
       /\ analysisState' = analysisState
       /\ analysisGen \in analysisConns'
       /\ stages' = stages
       /\ progress' = progress
       /\ summary' = summary
       /\ isPausing' = isPausing
       /\ elapsedMs' = elapsedMs

C25_PausedEventFrame == [][C25_PausedStep]_vars

\* A paused event was applied to a run with a stage and a snapshot while
\* no pause request had been made; the stream is still open and streaming.
C25_Witness ==
  /\ pausedEvents = 1
  /\ onPausedCalls = 1
  /\ pauseAccepts = 0
  /\ ~isPausing
  /\ intervals = {}
  /\ analysisState.status = "streaming"
  /\ analysisGen \in analysisConns
  /\ Len(stages) >= 1
  /\ progress # NoProgress

\* C26: a RunSummary is present only when the current run has completed
\* on a complete event that carried a project_id and a section count: it
\* is the result of the session and onComplete has run once.  It is set
\* only by the step that completes the session, and startAnalysis leaves
\* none.
C26_SummaryState ==
  summary # NoSummary
    => /\ analysisState.status = "complete"
       /\ analysisState.result = summary
       /\ TruthyStr(summary.project_id)
       /\ summary.sections # NoNum
       /\ onCompleteCalls = 1
       /\ onErrorCalls = 0

C26_SummaryStep ==
  /\ runs' # runs => summary' = NoSummary
  /\ summary' # summary
       => (analysisState.status = "streaming"
             /\ analysisState'.status = "complete")

C26_SummaryOnlyByComplete == [][C26_SummaryStep]_vars /\ []C26_SummaryState

\* The second run, started by Retry after a failed first one, completed
\* with a summary of no sections.
C26_Witness ==
  /\ runs = 2
  /\ analysisState.status = "complete"
  /\ summary # NoSummary
  /\ summary.sections = 0
  /\ summary.stages_ok = 0

\* C27: in a step that is not a startAnalysis, every stage name of the
\* Stage set is still in it afterwards: events, pause, complete and error
\* handling and teardown remove no stage.  Only startAnalysis empties the
\* set.
C27_Names(stgs) == { stgs[i].name : i \in 1..Len(stgs) }

C27_KeepStep ==
  /\ runs' = runs
       => /\ Len(stages') >= Len(stages)
          /\ C27_Names(stages) \subseteq C27_Names(stages')
  /\ runs' # runs => stages' = <<>>

C27_MembershipGrows == [][C27_KeepStep]_vars

\* Two stages have outlived a refused pause request and the error that
\* ended the run.
C27_Witness ==
  /\ C27_Names(stages) = {"A", "B"}
  /\ pauseOutcome = "refused"
  /\ analysisState.status = "error"
  /\ runs = 1

\* C28: a step that applies a thinking or tool_call event changes only
\* the status field of the last element, the placeholder in flight, and
\* sets it to the text the event carries; while a turn is streaming the
\* placeholder shows the text of the latest such event, or the initial
\* "Thinking..." when there has been none.
C28_UpdateStep ==
  (messages' # messages /\ Len(messages') = Len(messages)
     /\ chatState' = chatState)
    => /\ lastStatus' # NoStr
       /\ messages[Len(messages)].role = "assistant"
       /\ messages' = [messages EXCEPT ![Len(messages)].status = lastStatus']

C28_LatestStatus ==
  chatState.status = "streaming"
    => messages[Len(messages)].status =
         (IF lastStatus = NoStr THEN "Thinking..." ELSE lastStatus)

C28_StatusLastWriteWins == [][C28_UpdateStep]_vars /\ []C28_LatestStatus

\* The second turn shows the tool message that followed a thinking status;
\* the first turn keeps its final answer.
C28_Witness ==
  /\ Len(messages) = 4
  /\ chatState.status = "streaming"
  /\ lastStatus = "Running query_codebase"
  /\ messages[4].status = "Running query_codebase"
  /\ messages[4].content = ""
  /\ messages[2].content = "answer"

\* C29: the step that completes a chat turn replaces the last element by
\* an Assistant turn with the content, citations and confidence of the
\* result, no status and no error mark, whatever the placeholder showed
\* before, and changes no other turn.
C29_CompleteStep ==
  (chatState.status = "streaming" /\ chatState'.status = "complete")
    => /\ Len(messages') = Len(messages)
       /\ messages'[Len(messages)] =
            [role |-> "assistant",
             content |-> chatState'.result.message,
             citations |-> chatState'.result.citations,
             confidence |-> chatState'.result.confidence,
             status |-> NoStr,
             isError |-> FALSE]
       /\ \A i \in 1..(Len(messages) - 1) : messages'[i] = messages[i]

C29_CompleteState ==
  chatState.status = "complete"
    => /\ messages[Len(messages)].content \in {"answer", ""}
       /\ messages[Len(messages)].citations \in {"[c1]", "[]"}
       /\ messages[Len(messages)].status = NoStr

C29_CompleteReplacesPlaceholder ==
  [][C29_CompleteStep]_vars /\ []C29_CompleteState

\* The second turn was completed with the answer, its citation and its
\* confidence after the first turn had failed.
C29_Witness ==
  /\ Len(messages) = 4
  /\ chatState.status = "complete"
  /\ messages[2].isError
  /\ messages[4].content = "answer"
  /\ messages[4].citations = "[c1]"
  /\ messages[4].confidence = "high"
  /\ messages[4].status = NoStr
  /\ ~messages[4].isError

\* C30: the Stage set and the snapshot that the next render shows are the
\* result of applying onUpdate to the delivered events one at a time, in
\* the order of delivery, however the events are spread over renders: no
\* update is lost, merged with another or applied out of order.
C30_OnUpdateStages(stgs, e) ==
  IF TruthyStr(e.data.name) THEN UpsertStage(stgs, MkStage(e.data)) ELSE stgs

C30_OnUpdateProgress(prog, e) ==
  IF TruthyStr(e.data.name) THEN NextProgress(prog, e.data) ELSE prog

RECURSIVE C30_FoldStages(_)
C30_FoldStages(log) ==
  IF log = <<>> THEN <<>>
  ELSE C30_OnUpdateStages(C30_FoldStages(SubSeq(log, 1, Len(log) - 1)),
                          log[Len(log)])

RECURSIVE C30_FoldProgress(_)
C30_FoldProgress(log) ==
  IF log = <<>> THEN NoProgress
  ELSE C30_OnUpdateProgress(C30_FoldProgress(SubSeq(log, 1, Len(log) - 1)),
                            log[Len(log)])

C30_AppliedInDeliveryOrder ==
  /\ ApplyUpdaters(stages, stages, pendingUpdates) = C30_FoldStages(delivered)
  /\ ApplyProgress(progress, pendingUpdates) = C30_FoldProgress(delivered)
  /\ pendingUpdates = <<>>
       => (stages = C30_FoldStages(delivered)
             /\ progress = C30_FoldProgress(delivered))

\* Three events were delivered; the first was rendered on its own, the
\* other two, for two different stages, are waiting for the same render.
C30_Witness ==
  /\ Len(delivered) = 3
  /\ Len(stages) = 1
  /\ Len(pendingUpdates) = 2
  /\ pendingUpdates[1].name # pendingUpdates[2].name
  /\ stages[1].name \notin {pendingUpdates[1].name, pendingUpdates[2].name}

\* C31 as stated: once a "paused" stream event has been applied to the
\* run, the close of its transport does not invoke the error callback and
\* does not put the session in Error.
C31_PausedThenCloseIsQuiet ==
  [][ (mounted /\ pausedEvents > 0 /\ analysisState.status = "streaming"
         /\ analysisGen \in analysisConns /\ analysisGen \notin analysisConns')
        => (onErrorCalls' = onErrorCalls
              /\ analysisState'.status # "error") ]_vars

\* C32: at most one elapsed-time ticker is active at any time; when a
\* startRun starts its ticker, no interval of an earlier startRun is still
\* running, so the only active interval is the one just started.
C32_StartStep ==
  runs' # runs => (intervals = {} /\ intervals' = {runs'} /\ timerRef' = runs')

C32_SingleTicker ==
  [](Cardinality(intervals) <= 1) /\ [][C32_StartStep]_vars

\* the ticker of a second run is the only one and has ticked
C32_Witness ==
  runs = 2 /\ intervals = {2} /\ timerRef = 2 /\ elapsedMs > 0

\* C33: within a run, once a stage event with a full snapshot has been
\* applied, overallPercent is the percent of the most recent such snapshot:
\* a stage event with a full snapshot makes overallPercent its percent, a
\* stage event without one leaves the stored snapshot and overallPercent
\* as they were, and the snapshot is never dropped before the next startRun.
C33_SnapshotOf(data) ==
  [completed |-> data.completed, total |-> data.total,
   percent |-> data.percent]

C33_SnapshotStep ==
  runs' = runs =>
    /\ progress # NoProgress =>
         /\ progress' # NoProgress
         /\ OverallPercent(progress', stages') = progress'.percent
    /\ \A n \in StageNames :
         lastEv'[n] # lastEv[n] =>
           IF HasFullSnapshot(lastEv'[n])
           THEN /\ progress' = C33_SnapshotOf(lastEv'[n])
                /\ OverallPercent(progress', stages') = lastEv'[n].percent
           ELSE /\ progress' = progress
                /\ progress # NoProgress =>
                     OverallPercent(progress', stages')
                       = OverallPercent(progress, stages)
    /\ progress' # progress =>
         \E n \in StageNames :
           HasFullSnapshot(lastEv'[n]) /\ progress' = C33_SnapshotOf(lastEv'[n])

C33_SnapshotGoverns == [][C33_SnapshotStep]_vars

\* the snapshot with percent 0 is the most recent one, a stage event without
\* a snapshot has been applied since for another stage, and the ratio of done
\* stages (1 of 2) is not what overallPercent reports
C33_Witness ==
  /\ progress = [completed |-> 0, total |-> 4, percent |-> 0]
  /\ Len(stages) = 2
  /\ CountStatus(stages, {"done"}) = 1
  /\ \E n \in StageNames :
       lastEv[n] # NoData /\ ~HasFullSnapshot(lastEv[n])
  /\ OverallPercent(progress, stages) = 0

\* C34: a non-paused update event writes the Stage set iff its payload has a
\* non-empty name, whatever its event type: with a name, the Stage set of
\* the next render holds the payload's record under that name; without one,
\* the Stage set and the progress snapshot of the next render are what they
\* were before the event.  The snapshot is replaced only by a payload that
\* has a name and all of completed, total and percent.
C34_UpdateStep ==
  delivered' # delivered =>
    LET e == delivered'[Len(delivered')]
        named == TruthyStr(e.data.name)
        full == HasFullSnapshot(e.data)
        stagesBefore == ApplyUpdaters(stages, stages, pendingUpdates)
        stagesAfter == ApplyUpdaters(stages', stages', pendingUpdates')
        progressBefore == ApplyProgress(progress, pendingUpdates)
        progressAfter == ApplyProgress(progress', pendingUpdates')
    IN  /\ named =>
             /\ pendingUpdates' = Append(pendingUpdates, e.data)
             /\ \E i \in 1..Len(stagesAfter) :
                  /\ stagesAfter[i] = MkStage(e.data)
                  /\ stagesAfter[i].name = e.data.name
             /\ \/ stagesAfter # stagesBefore
                \/ \E i \in 1..Len(stagesBefore) :
                     stagesBefore[i] = MkStage(e.data)
        /\ ~named =>
             /\ pendingUpdates' = pendingUpdates
             /\ stagesAfter = stagesBefore
             /\ progressAfter = progressBefore
        /\ (named /\ full) =>
             progressAfter = [completed |-> e.data.completed,
                              total |-> e.data.total,
                              percent |-> e.data.percent]
        /\ ~(named /\ full) => progressAfter = progressBefore

C34_NameDecides == [][C34_UpdateStep]_vars

\* an update with an empty name and a full snapshot, then an update of
\* another event type with a name, have been applied and rendered: the
\* second one is the only stage and no snapshot is stored
C34_Witness ==
  /\ Len(delivered) = 2
  /\ delivered[1].data.name = ""
  /\ HasFullSnapshot(delivered[1].data)
  /\ delivered[2].event # "stage"
  /\ pendingUpdates = <<>>
  /\ Len(stages) = 1
  /\ stages[1].name = delivered[2].data.name
  /\ progress = NoProgress

\* C35: the upsert keeps the order of the stages: a stage event for a name
\* already listed replaces the record at its position and moves no stage, a
\* stage event for a new name puts its record last, so the stages are
\* always listed in the order in which their names first appeared.
C35_OrderStep ==
  StageEventStep =>
    /\ Len(stages') \in {Len(stages), Len(stages) + 1}
    /\ \A i \in 1..Len(stages) : stages'[i].name = stages[i].name
    /\ \A i \in 1..Len(stages) :
         lastEv'[stages[i].name] = lastEv[stages[i].name]
           => stages'[i] = stages[i]
    /\ Len(stages') = Len(stages) + 1 =>
         /\ \A i \in 1..Len(stages) :
              stages[i].name # stages'[Len(stages')].name
         /\ lastEv[stages'[Len(stages')].name] = NoData
         /\ lastEv'[stages'[Len(stages')].name] # NoData

C35_UpsertKeepsOrder == [][C35_OrderStep]_vars

\* three stages are listed; the first one, A, appeared as running with the
\* snapshot that is still stored and was replaced in place by its done record
C35_Witness ==
  /\ Len(stages) = 3
  /\ stages[1].name = "A"
  /\ stages[1].status = "done"
  /\ lastEv["A"].status = "done"
  /\ progress = [completed |-> 1, total |-> 4, percent |-> 25]

\* C36: once a pause request has been accepted, the pausing flag stays set
\* for the rest of the tracker's life: no operation, startRun included,
\* clears it, and so the tracker issues no further pause request.
C36_AfterAcceptStep ==
  pauseOutcome = "accepted" =>
    /\ isPausing'
    /\ pauseFetches' = 0
    /\ pauseOutcome' = "accepted"

C36_PausingStaysSet ==
  /\ [](pauseOutcome = "accepted" => (isPausing /\ pauseFetches = 0))
  /\ [][C36_AfterAcceptStep]_vars

\* a second run was started after the accepted pause: it is streaming with
\* its ticker live and the flag is still set
C36_Witness ==
  /\ pauseOutcome = "accepted"
  /\ runs = 2
  /\ mounted
  /\ analysisState.status = "streaming"
  /\ intervals = {2}
  /\ isPausing

\* C37: a pause reply that is received but does not accept the pause
\* (success false) is handled exactly like a network failure: the pausing
\* flag is cleared, the pause callback is not invoked, the ticker keeps
\* running, and nothing else of the tracker changes.
C37_RefusedStep ==
  (pauseFetches' < pauseFetches /\ pauseOutcome' = "refused")
    => /\ isPausing' = (IF mounted THEN FALSE ELSE isPausing)
       /\ onPausedCalls' = onPausedCalls
       /\ pauseAccepts' = pauseAccepts
       /\ intervals' = intervals
       /\ <<timerRef, elapsedMs, analysisState, stages, progress, summary,
            onErrorCalls, onCompleteCalls>>'
            = <<timerRef, elapsedMs, analysisState, stages, progress,
                summary, onErrorCalls, onCompleteCalls>>

C37_RefusedLikeNetworkFailure == [][C37_RefusedStep]_vars

\* the pause was refused while the run was streaming: its ticker is still
\* live and has ticked, the flag is clear and the callback has not run
C37_Witness ==
  /\ pauseOutcome = "refused"
  /\ mounted
  /\ ~isPausing
  /\ pauseFetches = 0
  /\ analysisState.status = "streaming"
  /\ timerRef \in intervals
  /\ elapsedMs > 0
  /\ onPausedCalls = 0

\* C38: in every reachable state the transcript has even length, twice the
\* number of sendMessage calls that were accepted, and its turns alternate:
\* a User turn at the first, third, ... place and an Assistant turn at the
\* second, fourth, ... place.
C38_Alternation ==
  /\ Len(messages) % 2 = 0
  /\ Len(messages) = 2 * sends
  /\ \A i \in 1..Len(messages) :
       messages[i].role = (IF i % 2 = 1 THEN "user" ELSE "assistant")

\* two exchanges: the first ended with an error turn, the second with a
\* completed turn
C38_Witness ==
  /\ sends = 2
  /\ Len(messages) = 4
  /\ messages[2].isError
  /\ messages[4].content = "answer"
  /\ messages[4].citations = "[c1]"
  /\ chatState.status = "complete"

\* C39: the conversation identifier is never the empty string and, once
\* set, is never null again.  Only a completion that carries an identifier
\* changes it, to that identifier; a completion without one, an error, a
\* cancel and a sendMessage leave it as it was.
C39_IdStep ==
  /\ conversationId # NoStr => conversationId' # NoStr
  /\ conversationId' # conversationId =>
       /\ chatState.status = "streaming"
       /\ chatState'.status = "complete"
       /\ TruthyStr(chatState'.result.conversation_id)
       /\ conversationId' = chatState'.result.conversation_id
  /\ (chatState'.status = "complete" /\ chatState.status = "streaming"
        /\ ~TruthyStr(chatState'.result.conversation_id))
       => conversationId' = conversationId
  /\ (chatState'.status \in {"error", "idle"} \/ sends' # sends)
       => conversationId' = conversationId

C39_IdentifierIsKept == [](conversationId # "") /\ [][C39_IdStep]_vars

\* the first exchange set the identifier; the second one completed without
\* an identifier and the first one is still stored
C39_Witness ==
  /\ sends = 2
  /\ chatState.status = "complete"
  /\ chatState.result.conversation_id = ""
  /\ messages[4].citations = "[]"
  /\ conversationId = "conv-1"

\* C40: cancel() leaves the transcript as it is: the placeholder of the
\* cancelled exchange stays the last element, with empty content and the
\* status it had, neither finalized nor removed; a sendMessage that follows
\* appends its User turn and its placeholder after it.
C40_Unfinalized(m) ==
  /\ m.role = "assistant"
  /\ m.content = ""
  /\ TruthyStr(m.status)
  /\ ~m.isError

C40_CancelledStep ==
  /\ (chatState.status = "streaming" /\ chatState'.status = "idle")
       => /\ messages' = messages
          /\ assistantIdxRef' = assistantIdxRef
          /\ C40_Unfinalized(messages'[Len(messages')])
  /\ (chatState.status = "idle" /\ chatGen >= 1 /\ sends' # sends)
       => /\ Len(messages') = Len(messages) + 2
          /\ SubSeq(messages', 1, Len(messages)) = messages
          /\ C40_Unfinalized(messages'[Len(messages)])
          /\ messages'[Len(messages) + 1].role = "user"
          /\ messages'[Len(messages) + 2] = PlaceholderTurn
          /\ assistantIdxRef' = Len(messages')

C40_CancelKeepsTranscript ==
  /\ [][C40_CancelledStep]_vars
  /\ []((chatState.status = "idle" /\ chatGen >= 1)
          => C40_Unfinalized(messages[Len(messages)]))

\* the first exchange was cancelled after a status update; the second
\* sendMessage opened its own stream and put its pair after the placeholder
\* that was left behind
C40_Witness ==
  /\ chatGen = 2
  /\ chatState.status = "streaming"
  /\ Len(messages) = 4
  /\ messages[2].content = ""
  /\ messages[2].status = "Searching"
  /\ messages[4] = PlaceholderTurn

====
